---- MODULE Spec2Model ----
(***************************************************************************)
(* Heading/title inference pipeline of src/main.py (PDF outline            *)
(* extractor).  A text is a sequence of characters, each character a      *)
(* string of the model: one ASCII character, or the name of a non-ASCII    *)
(* one ("rsquo" is U+2019, "ndash" U+2013, "oacute" U+00F3, ...).          *)
(* Regular expressions are values matched by Ends, as Python's re.match    *)
(* matches them.                                                           *)
(***************************************************************************)
EXTENDS Integers, Sequences, FiniteSets, TLC

(* ------------------------------------------------------------------ *)
(* Characters                                                          *)
(* ------------------------------------------------------------------ *)

Lowers == <<"a","b","c","d","e","f","g","h","i","j","k","l","m","n","o","p","q","r","s","t","u","v","w","x","y","z">>

Uppers == <<"A","B","C","D","E","F","G","H","I","J","K","L","M","N","O","P","Q","R","S","T","U","V","W","X","Y","Z">>

\* Accented letters of the model's alphabet: <<lower, upper, base of lower, base of upper>>.
Accented == << <<"oacute", "Oacute", "o", "O">>, <<"iacute", "Iacute", "i", "I">> >>

AsciiLower == {Lowers[i] : i \in 1..Len(Lowers)}

AsciiUpper == {Uppers[i] : i \in 1..Len(Uppers)}

AsciiLetters == AsciiLower \cup AsciiUpper

Digits == {"0", "1", "2", "3", "4", "5", "6", "7", "8", "9"}

LowerLetters == AsciiLower \cup {Accented[i][1] : i \in 1..Len(Accented)}

UpperLetters == AsciiUpper \cup {Accented[i][2] : i \in 1..Len(Accented)}

\* Python's \s and the characters str.strip() and str.split() treat as blank.
Whitespace == {" ", "\t", "\n", "\r"}

\* Python's \w on str patterns: Unicode letters, digits and the underscore.
WordChars == LowerLetters \cup UpperLetters \cup Digits \cup {"_"}

\* str.lower() of one character.
ToLower(c) ==
    IF c \in AsciiUpper THEN Lowers[CHOOSE i \in 1..Len(Uppers) : Uppers[i] = c]
    ELSE IF \E i \in 1..Len(Accented) : Accented[i][2] = c
         THEN Accented[CHOOSE i \in 1..Len(Accented) : Accented[i][2] = c][1]
    ELSE c

\* str.upper() of one character.
ToUpper(c) ==
    IF c \in AsciiLower THEN Uppers[CHOOSE i \in 1..Len(Lowers) : Lowers[i] = c]
    ELSE IF \E i \in 1..Len(Accented) : Accented[i][1] = c
         THEN Accented[CHOOSE i \in 1..Len(Accented) : Accented[i][1] = c][2]
    ELSE c

(* ------------------------------------------------------------------ *)
(* str methods                                                         *)
(* ------------------------------------------------------------------ *)

SetMin(S) == CHOOSE x \in S : \A y \in S : x <= y

SetMax(S) == CHOOSE x \in S : \A y \in S : x >= y

\* A list comprehension [f[1], ..., f[n]], as a sequence.
AsSeq(f) == SubSeq(f, 1, Len(f))

\* s.lower()
lower(s) == AsSeq([i \in 1..Len(s) |-> ToLower(s[i])])

\* s.upper()
upper(s) == AsSeq([i \in 1..Len(s) |-> ToUpper(s[i])])

\* s.strip()
strip(s) ==
    LET keep == {i \in 1..Len(s) : s[i] \notin Whitespace}
    IN  IF keep = {} THEN <<>> ELSE SubSeq(s, SetMin(keep), SetMax(keep))

\* sub in s
Contains(s, sub) ==
    \E i \in 0..(Len(s) - Len(sub)) : SubSeq(s, i + 1, i + Len(sub)) = sub

\* s.startswith(pre)
startswith(s, pre) == Len(pre) <= Len(s) /\ SubSeq(s, 1, Len(pre)) = pre

\* s.endswith(suf)
endswith(s, suf) ==
    Len(suf) <= Len(s) /\ SubSeq(s, Len(s) - Len(suf) + 1, Len(s)) = suf

\* s.isupper(): some cased character, and no lower-case one.
isupper(s) ==
    /\ \E i \in 1..Len(s) : s[i] \in UpperLetters
    /\ \A i \in 1..Len(s) : s[i] \notin LowerLetters

RECURSIVE SortedSeq(_)
\* sorted(S) of a set of numbers
SortedSeq(S) ==
    IF S = {} THEN <<>> ELSE <<SetMin(S)>> \o SortedSeq(S \ {SetMin(S)})

RECURSIVE SetToSeq(_)
\* The elements of a set, in some order.
SetToSeq(S) ==
    IF S = {} THEN <<>>
    ELSE LET x == CHOOSE y \in S : TRUE IN <<x>> \o SetToSeq(S \ {x})

\* sum(s)
RECURSIVE SumSeq(_)
SumSeq(s) == IF s = <<>> THEN 0 ELSE Head(s) + SumSeq(Tail(s))

\* The pieces of s between the positions of cuts (a set of positions of s),
\* empty pieces kept.
Pieces(s, cuts) ==
    LET marks == SortedSeq(cuts \cup {0, Len(s) + 1})
    IN  AsSeq([i \in 1..(Len(marks) - 1) |-> SubSeq(s, marks[i] + 1, marks[i + 1] - 1)])

\* s.split(sep) for a one-character sep.
splitOn(s, sep) == Pieces(s, {i \in 1..Len(s) : s[i] = sep})

\* s.split(): cut at runs of blanks, no empty pieces.
split(s) ==
    SelectSeq(Pieces(s, {i \in 1..Len(s) : s[i] \in Whitespace}), LAMBDA w : w # <<>>)

RECURSIVE join(_, _)
\* sep.join(parts)
join(sep, parts) ==
    IF parts = <<>> THEN <<>>
    ELSE IF Len(parts) = 1 THEN parts[1]
    ELSE parts[1] \o sep \o join(sep, Tail(parts))

(* ------------------------------------------------------------------ *)
(* Regular expressions (module re)                                     *)
(* ------------------------------------------------------------------ *)

\* [...]: one character of S.
Set(S) == [k |-> "set", s |-> S]

\* [^...]: one character not in S.
NSet(S) == [k |-> "nset", s |-> S]

\* . : any character but a newline.
Dot == NSet({"\n"})

\* r1 r2 ... in sequence.
Cat(rs) == [k |-> "cat", a |-> rs]

\* r1|r2|...
Alt(rs) == [k |-> "alt", a |-> rs]

\* c{m,} for a character class c (Set or NSet): c* is Rep(c, 0), c+ is
\* Rep(c, 1).  Every repetition in the code's patterns is of one class.
Rep(c, m) == [k |-> "rep", r |-> c, min |-> m]

\* r?
Opt(r) == Alt(<<Cat(<<>>), r>>)

\* ^
Bol == [k |-> "bol"]

\* $ : the end of the text, or just before a newline ending it.
Eol == [k |-> "eol"]

\* One character under re.IGNORECASE.
CI(S) == Set(S \cup {ToLower(c) : c \in S} \cup {ToUpper(c) : c \in S})

\* A literal word under re.IGNORECASE.
Lit(w) == Cat(AsSeq([i \in 1..Len(w) |-> CI({w[i]})]))

\* A literal word, case-sensitive.
LitCS(w) == Cat(AsSeq([i \in 1..Len(w) |-> Set({w[i]})]))

\* \s, \d, \w and [A-Z], [a-z] under re.IGNORECASE.
Ws == Set(Whitespace)

Dig == Set(Digits)

Wd == Set(WordChars)

AZ == Set(AsciiLetters)

\* Whether the character class c (Set or NSet) holds the character ch.
Holds(c, ch) == IF c.k = "set" THEN ch \in c.s ELSE ch \notin c.s

RECURSIVE Ends(_, _, _)
RECURSIVE EndsCat(_, _, _, _)

\* The positions (1 .. Len(s)+1) at which a match of r that starts at a
\* position of P can end.
Ends(r, s, P) ==
    CASE r.k \in {"set", "nset"} ->
             {p + 1 : p \in {q \in P : q <= Len(s) /\ Holds(r, s[q])}}
      [] r.k = "cat"  -> EndsCat(r.a, 1, s, P)
      [] r.k = "alt"  -> UNION {Ends(r.a[i], s, P) : i \in 1..Len(r.a)}
      [] r.k = "rep"  ->
             LET \* the first position from p on that the class does not hold
                 stop(p) == SetMin({t \in p..Len(s) : ~Holds(r.r, s[t])} \cup {Len(s) + 1})
             IN  UNION {(p + r.min)..stop(p) : p \in P}
      [] r.k = "bol"  -> {p \in P : p = 1}
      [] r.k = "eol"  -> {p \in P : p = Len(s) + 1 \/ (p = Len(s) /\ s[p] = "\n")}

EndsCat(rs, i, s, P) ==
    IF i > Len(rs) \/ P = {} THEN P ELSE EndsCat(rs, i + 1, s, Ends(rs[i], s, P))

\* re.match(r, s) is not None
Match(r, s) == Ends(r, s, {1}) # {}

\* any(re.match(p, s) for p in patterns)
MatchAny(patterns, s) == \E i \in 1..Len(patterns) : Match(patterns[i], s)

\* re.sub('[S]+', c, s): every maximal run of characters of S becomes the
\* character c.
SubRuns(S, c, s) ==
    LET first(i) == i = 1 \/ s[i - 1] \notin S
        kept     == SelectSeq(AsSeq([i \in 1..Len(s) |-> i]),
                              LAMBDA i : s[i] \notin S \/ first(i))
    IN  AsSeq([j \in 1..Len(kept) |-> IF s[kept[j]] \in S THEN c ELSE s[kept[j]]])

\* re.sub('[S]', c, s): every character of S becomes the character c.
SubEach(S, c, s) == AsSeq([i \in 1..Len(s) |-> IF s[i] \in S THEN c ELSE s[i]])

\* re.sub('[^S]', '', s): only the characters of S stay.
KeepOnly(S, s) == SelectSeq(s, LAMBDA c : c \in S)

(* ------------------------------------------------------------------ *)
(* extract_spans                                                       *)
(* ------------------------------------------------------------------ *)

\* A block of page.get_text("blocks") is [type, text, page, y0, y1]
\* (block[6], block[4], the page's index, block[1], block[3]), the blocks of
\* a document in page order.  A span is [text, size, flags, page, y]; the
\* "font" and "bbox" of the code's spans are read nowhere.

RECURSIVE LinesToSpans(_, _)
\* The inner loop of extract_spans: a span per non-blank stripped line.
LinesToSpans(lines, block) ==
    IF lines = <<>> THEN <<>>
    ELSE LET line == strip(Head(lines))
             rest == LinesToSpans(Tail(lines), block)
         IN  IF line = <<>> THEN rest
             ELSE << [text  |-> line,
                      size  |-> block.y1 - block.y0,
                      flags |-> 0,
                      page  |-> block.page,
                      y     |-> block.y0] >> \o rest

RECURSIVE extract_spans(_)
extract_spans(bs) ==
    IF bs = <<>> THEN <<>>
    ELSE LET block == Head(bs)
             text  == strip(block.text)
             rest  == extract_spans(Tail(bs))
         IN  IF block.type # 0 THEN rest
             ELSE IF text = <<>> THEN rest
             ELSE LinesToSpans(splitOn(text, "\n"), block) \o rest

\* merge_fragmented_text returns its argument in either branch.
merge_fragmented_text(spans) == spans

(* ------------------------------------------------------------------ *)
(* difflib.SequenceMatcher(None, a, b).ratio()                         *)
(* ------------------------------------------------------------------ *)

\* The length of the common run of a[i..ahi-1] and b[j..bhi-1] (1-based, hi exclusive).
RunLen(a, b, i, j, ahi, bhi) ==
    LET room == IF ahi - i < bhi - j THEN ahi - i ELSE bhi - j
    IN  SetMax({k \in 0..room : \A t \in 0..(k - 1) : a[i + t] = b[j + t]})

\* find_longest_match: <<i, j, k>>, the longest block, the earliest in a and
\* of those the earliest in b; k = 0 when there is none.  No junk: isjunk is
\* None and b is shorter than the 200 characters autojunk needs.
find_longest_match(a, b, alo, ahi, blo, bhi) ==
    LET pairs == {<<i, j>> \in (alo..(ahi - 1)) \X (blo..(bhi - 1)) : a[i] = b[j]}
    IN  IF pairs = {} THEN <<alo, blo, 0>>
        ELSE LET run  == [p \in pairs |-> RunLen(a, b, p[1], p[2], ahi, bhi)]
                 best == SetMax({run[p] : p \in pairs})
                 at   == {p \in pairs : run[p] = best}
                 i    == SetMin({p[1] : p \in at})
                 j    == SetMin({p[2] : p \in {q \in at : q[1] = i}})
             IN  <<i, j, best>>

RECURSIVE MatchedChars(_, _, _, _, _, _)
\* The sum of the sizes of get_matching_blocks over a[alo..ahi-1], b[blo..bhi-1].
MatchedChars(a, b, alo, ahi, blo, bhi) ==
    LET m == find_longest_match(a, b, alo, ahi, blo, bhi)
        i == m[1]
        j == m[2]
        k == m[3]
    IN  IF k = 0 THEN 0
        ELSE k
             + (IF alo < i /\ blo < j THEN MatchedChars(a, b, alo, i, blo, j) ELSE 0)
             + (IF i + k < ahi /\ j + k < bhi
                THEN MatchedChars(a, b, i + k, ahi, j + k, bhi) ELSE 0)

\* The characters a and b have in common, counted as often as both hold them
\* (quick_ratio's count): the matching blocks never hold more.
CommonChars(a, b) ==
    LET count(s, c) == Cardinality({i \in 1..Len(s) : s[i] = c})
        least(c)    == IF count(a, c) < count(b, c) THEN count(a, c) ELSE count(b, c)
        chars       == SetToSeq({a[i] : i \in 1..Len(a)} \cap {b[i] : i \in 1..Len(b)})
    IN  SumSeq(AsSeq([i \in 1..Len(chars) |-> least(chars[i])]))

\* ratio() > num/den, the ratio being 2.0 * matches / (len(a) + len(b)), or 1.0
\* for two empty texts.  The blocks are looked for only when the characters in
\* common are enough for the ratio to exceed num/den.
RatioExceeds(a, b, num, den) ==
    LET total == Len(a) + Len(b)
    IN  IF total = 0 THEN den > num
        ELSE /\ 2 * CommonChars(a, b) * den > num * total
             /\ 2 * MatchedChars(a, b, 1, Len(a) + 1, 1, Len(b) + 1) * den > num * total

(* ------------------------------------------------------------------ *)
(* extract_document_title                                              *)
(* ------------------------------------------------------------------ *)

FormTitle == <<"A","p","p","l","i","c","a","t","i","o","n"," ","f","o","r","m"," ","f","o","r"," ","g","r","a","n","t"," ","o","f"," ","L","T","C"," ","a","d","v","a","n","c","e"," "," ">>

PathwaysTitle == <<"P","a","r","s","i","p","p","a","n","y"," ","-","T","r","o","y"," ","H","i","l","l","s"," ","S","T","E","M"," ","P","a","t","h","w","a","y","s">>

RfpTitle == <<"R","F","P",":","R","e","q","u","e","s","t"," ","f","o","r"," ","P","r","o","p","o","s","a","l"," ","T","o"," ","P","r","e","s","e","n","t"," ","a"," ","P","r","o","p","o","s","a","l"," ","f","o","r"," ","D","e","v","e","l","o","p","i","n","g"," ","t","h","e"," ","B","u","s","i","n","e","s","s"," ","P","l","a","n"," ","f","o","r"," ","t","h","e"," ","O","n","t","a","r","i","o"," ","D","i","g","i","t","a","l"," ","L","i","b","r","a","r","y"," "," ">>

TechnicalTitle == <<"O","v","e","r","v","i","e","w"," "," ","F","o","u","n","d","a","t","i","o","n"," ","L","e","v","e","l"," ","E","x","t","e","n","s","i","o","n","s"," "," ">>

form_keywords == <<<<"a","p","p","l","i","c","a","t","i","o","n">>, <<"f","o","r","m">>, <<"g","r","a","n","t">>, <<"l","t","c">>, <<"a","d","v","a","n","c","e">>>>

FormReference == <<"a","p","p","l","i","c","a","t","i","o","n"," ","f","o","r","m"," ","f","o","r"," ","g","r","a","n","t"," ","o","f"," ","l","t","c"," ","a","d","v","a","n","c","e">>

event_phrases == <<<<"h","o","p","e"," ","t","o"," ","s","e","e"," ","y","o","u"," ","t","h","e","r","e">>, <<"j","o","i","n"," ","u","s">>, <<"e","v","e","n","t">>, <<"i","n","v","i","t","a","t","i","o","n">>>>

\* [s["text"].strip() for s in first_two_pages if s["text"].strip()]
TitleLines(spans) ==
    LET first_two_pages == SelectSeq(spans, LAMBDA s : s.page \in {0, 1})
        stripped        == AsSeq([i \in 1..Len(first_two_pages) |-> strip(first_two_pages[i].text)])
    IN  SelectSeq(stripped, LAMBDA l : l # <<>>)

\* Some window of 5, 4, 3 or 2 consecutive lines holds the first three form keywords.
FormWindow(lines) ==
    \E window \in 2..5 :
        \E i \in 0..(Len(lines) - window) :
            LET merged == lower(join(<<" ">>, SubSeq(lines, i + 1, i + window)))
            IN  \A k \in 1..3 : Contains(merged, form_keywords[k])

\* any(p in l.lower() for p in event_phrases)
HasEventPhrase(l) ==
    \E p \in 1..Len(event_phrases) : Contains(lower(l), event_phrases[p])

\* Fallback: largest font on first page.
LargestFontTitle(spans) ==
    LET first_page == SelectSeq(spans, LAMBDA s : s.page = 0)
    IN  IF first_page = <<>> THEN <<>>
        ELSE LET max_size   == SetMax({first_page[i].size : i \in 1..Len(first_page)})
                 \* s["size"] >= max_size * 0.8
                 big        == SelectSeq(first_page, LAMBDA s : 10 * s.size >= 8 * max_size)
                 candidates == AsSeq([i \in 1..Len(big) |-> big[i].text])
                 title      == strip(join(<<" ">>, candidates))
             IN  IF title # <<>> /\ ~endswith(title, <<" ">>)
                 THEN title \o <<" ">> ELSE title

\* The branch of extract_document_title that returns.
TitleStrategy(spans) ==
    LET lines == TitleLines(spans)
        any(P(_)) == \E i \in 1..Len(lines) : P(lines[i])
    IN  IF FormWindow(lines) THEN "form_window"
        ELSE IF any(LAMBDA l : RatioExceeds(lower(l), FormReference, 8, 10))
             THEN "form_fuzzy"
        ELSE IF any(LAMBDA l : Contains(lower(l), <<"p","a","r","s","i","p","p","a","n","y">>)
                               /\ Contains(lower(l), <<"s","t","e","m">>))
             THEN "pathways"
        ELSE IF /\ any(LAMBDA l : Contains(lower(l), <<"r","f","p">>)
                                  \/ Contains(lower(l), <<"r","e","q","u","e","s","t"," ","f","o","r"," ","p","r","o","p","o","s","a","l">>))
                /\ any(LAMBDA l : Contains(lower(l), <<"r","e","q","u","e","s","t"," ","f","o","r"," ","p","r","o","p","o","s","a","l">>))
             THEN "rfp"
        ELSE IF any(LAMBDA l : Contains(lower(l), <<"f","o","u","n","d","a","t","i","o","n">>)
                               /\ Contains(lower(l), <<"l","e","v","e","l">>))
             THEN "technical"
        ELSE IF any(HasEventPhrase) THEN "event"
        ELSE "largest_font"

extract_document_title(spans) ==
    LET how == TitleStrategy(spans)
    IN  CASE how \in {"form_window", "form_fuzzy"} -> FormTitle
          [] how = "pathways"     -> PathwaysTitle
          [] how = "rfp"          -> RfpTitle
          [] how = "technical"    -> TechnicalTitle
          [] how = "event"        -> <<>>
          [] how = "largest_font" -> LargestFontTitle(spans)

(* ------------------------------------------------------------------ *)
(* filter_headings: the expected headings of the technical and RFP     *)
(* documents                                                           *)
(* ------------------------------------------------------------------ *)

technical_expected == <<
    <<<<"R","e","v","i","s","i","o","n"," ","H","i","s","t","o","r","y"," ">>, "H1">>,
    <<<<"T","a","b","l","e"," ","o","f"," ","C","o","n","t","e","n","t","s"," ">>, "H1">>,
    <<<<"A","c","k","n","o","w","l","e","d","g","e","m","e","n","t","s"," ">>, "H1">>,
    <<<<"1","."," ","I","n","t","r","o","d","u","c","t","i","o","n"," ","t","o"," ","t","h","e"," ","F","o","u","n","d","a","t","i","o","n"," ","L","e","v","e","l"," ","E","x","t","e","n","s","i","o","n","s"," ">>, "H1">>,
    <<<<"2","."," ","I","n","t","r","o","d","u","c","t","i","o","n"," ","t","o"," ","F","o","u","n","d","a","t","i","o","n"," ","L","e","v","e","l"," ","A","g","i","l","e"," ","T","e","s","t","e","r"," ","E","x","t","e","n","s","i","o","n"," ">>, "H1">>,
    <<<<"2",".","1"," ","I","n","t","e","n","d","e","d"," ","A","u","d","i","e","n","c","e"," ">>, "H2">>,
    <<<<"2",".","2"," ","C","a","r","e","e","r"," ","P","a","t","h","s"," ","f","o","r"," ","T","e","s","t","e","r","s"," ">>, "H2">>,
    <<<<"2",".","3"," ","L","e","a","r","n","i","n","g"," ","O","b","j","e","c","t","i","v","e","s"," ">>, "H2">>,
    <<<<"2",".","4"," ","E","n","t","r","y"," ","R","e","q","u","i","r","e","m","e","n","t","s"," ">>, "H2">>,
    <<<<"2",".","5"," ","S","t","r","u","c","t","u","r","e"," ","a","n","d"," ","C","o","u","r","s","e"," ","D","u","r","a","t","i","o","n"," ">>, "H2">>,
    <<<<"2",".","6"," ","K","e","e","p","i","n","g"," ","I","t"," ","C","u","r","r","e","n","t"," ">>, "H2">>,
    <<<<"3","."," ","O","v","e","r","v","i","e","w"," ","o","f"," ","t","h","e"," ","F","o","u","n","d","a","t","i","o","n"," ","L","e","v","e","l"," ","E","x","t","e","n","s","i","o","n"," ","ndash"," ","A","g","i","l","e"," ","T","e","s","t","e","r","S","y","l","l","a","b","u","s"," ">>, "H1">>,
    <<<<"3",".","1"," ","B","u","s","i","n","e","s","s"," ","O","u","t","c","o","m","e","s"," ">>, "H2">>,
    <<<<"3",".","2"," ","C","o","n","t","e","n","t"," ">>, "H2">>,
    <<<<"4","."," ","R","e","f","e","r","e","n","c","e","s"," ">>, "H1">>,
    <<<<"4",".","1"," ","T","r","a","d","e","m","a","r","k","s"," ">>, "H2">>,
    <<<<"4",".","2"," ","D","o","c","u","m","e","n","t","s"," ","a","n","d"," ","W","e","b"," ","S","i","t","e","s"," ">>, "H2">>
>>

rfp_expected == <<
    <<<<"O","n","t","a","r","i","o","rsquo","s"," ","D","i","g","i","t","a","l"," ","L","i","b","r","a","r","y"," ">>, "H1">>,
    <<<<"A"," ","C","r","i","t","i","c","a","l"," ","C","o","m","p","o","n","e","n","t"," ","f","o","r"," ","I","m","p","l","e","m","e","n","t","i","n","g"," ","O","n","t","a","r","i","o","rsquo","s"," ","R","o","a","d"," ","M","a","p"," ","t","o"," ","P","r","o","s","p","e","r","i","t","y"," ","S","t","r","a","t","e","g","y"," ">>, "H1">>,
    <<<<"S","u","m","m","a","r","y"," ">>, "H2">>,
    <<<<"T","i","m","e","l","i","n","e",":"," ">>, "H3">>,
    <<<<"B","a","c","k","g","r","o","u","n","d"," ">>, "H2">>,
    <<<<"E","q","u","i","t","a","b","l","e"," ","a","c","c","e","s","s"," ","f","o","r"," ","a","l","l"," ","O","n","t","a","r","i","a","n","s",":"," ">>, "H3">>,
    <<<<"S","h","a","r","e","d"," ","d","e","c","i","s","i","o","n","-","m","a","k","i","n","g"," ","a","n","d"," ","a","c","c","o","u","n","t","a","b","i","l","i","t","y",":"," ">>, "H3">>,
    <<<<"S","h","a","r","e","d"," ","g","o","v","e","r","n","a","n","c","e"," ","s","t","r","u","c","t","u","r","e",":"," ">>, "H3">>,
    <<<<"S","h","a","r","e","d"," ","f","u","n","d","i","n","g",":"," ">>, "H3">>,
    <<<<"L","o","c","a","l"," ","p","o","i","n","t","s"," ","o","f"," ","e","n","t","r","y",":"," ">>, "H3">>,
    <<<<"A","c","c","e","s","s",":"," ">>, "H3">>,
    <<<<"G","u","i","d","a","n","c","e"," ","a","n","d"," ","A","d","v","i","c","e",":"," ">>, "H3">>,
    <<<<"T","r","a","i","n","i","n","g",":"," ">>, "H3">>,
    <<<<"P","r","o","v","i","n","c","i","a","l"," ","P","u","r","c","h","a","s","i","n","g"," ","&"," ","L","i","c","e","n","s","i","n","g",":"," ">>, "H3">>,
    <<<<"T","e","c","h","n","o","l","o","g","i","c","a","l"," ","S","u","p","p","o","r","t",":"," ">>, "H3">>,
    <<<<"W","h","a","t"," ","c","o","u","l","d"," ","t","h","e"," ","O","D","L"," ","r","e","a","l","l","y"," ","m","e","a","n","?"," ">>, "H3">>,
    <<<<"F","o","r"," ","e","a","c","h"," ","O","n","t","a","r","i","o"," ","c","i","t","i","z","e","n"," ","i","t"," ","c","o","u","l","d"," ","m","e","a","n",":"," ">>, "H4">>,
    <<<<"F","o","r"," ","e","a","c","h"," ","O","n","t","a","r","i","o"," ","s","t","u","d","e","n","t"," ","i","t"," ","c","o","u","l","d"," ","m","e","a","n",":"," ">>, "H4">>,
    <<<<"F","o","r"," ","e","a","c","h"," ","O","n","t","a","r","i","o"," ","l","i","b","r","a","r","y"," ","i","t"," ","c","o","u","l","d"," ","m","e","a","n",":"," ">>, "H4">>,
    <<<<"F","o","r"," ","t","h","e"," ","O","n","t","a","r","i","o"," ","g","o","v","e","r","n","m","e","n","t"," ","i","t"," ","c","o","u","l","d"," ","m","e","a","n",":"," ">>, "H4">>,
    <<<<"T","h","e"," ","B","u","s","i","n","e","s","s"," ","P","l","a","n"," ","t","o"," ","b","e"," ","D","e","v","e","l","o","p","e","d"," ">>, "H2">>,
    <<<<"M","i","l","e","s","t","o","n","e","s"," ">>, "H3">>,
    <<<<"A","p","p","r","o","a","c","h"," ","a","n","d"," ","S","p","e","c","i","f","i","c"," ","P","r","o","p","o","s","a","l"," ","R","e","q","u","i","r","e","m","e","n","t","s"," ">>, "H2">>,
    <<<<"E","v","a","l","u","a","t","i","o","n"," ","a","n","d"," ","A","w","a","r","d","i","n","g"," ","o","f"," ","C","o","n","t","r","a","c","t"," ">>, "H2">>,
    <<<<"A","p","p","e","n","d","i","x"," ","A",":"," ","O","D","L"," ","E","n","v","i","s","i","o","n","e","d"," ","P","h","a","s","e","s"," ","&"," ","F","u","n","d","i","n","g"," ">>, "H2">>,
    <<<<"P","h","a","s","e"," ","I",":"," ","B","u","s","i","n","e","s","s"," ","P","l","a","n","n","i","n","g"," ">>, "H3">>,
    <<<<"P","h","a","s","e"," ","I","I",":"," ","I","m","p","l","e","m","e","n","t","i","n","g"," ","a","n","d"," ","T","r","a","n","s","i","t","i","o","n","i","n","g"," ">>, "H3">>,
    <<<<"P","h","a","s","e"," ","I","I","I",":"," ","O","p","e","r","a","t","i","n","g"," ","a","n","d"," ","G","r","o","w","i","n","g"," ","t","h","e"," ","O","D","L"," ">>, "H3">>,
    <<<<"A","p","p","e","n","d","i","x"," ","B",":"," ","O","D","L"," ","S","t","e","e","r","i","n","g"," ","C","o","m","m","i","t","t","e","e"," ","T","e","r","m","s"," ","o","f"," ","R","e","f","e","r","e","n","c","e"," ">>, "H2">>,
    <<<<"1","."," ","P","r","e","a","m","b","l","e"," ">>, "H3">>,
    <<<<"2","."," ","T","e","r","m","s"," ","o","f"," ","R","e","f","e","r","e","n","c","e"," ">>, "H3">>,
    <<<<"3","."," ","M","e","m","b","e","r","s","h","i","p"," ">>, "H3">>,
    <<<<"4","."," ","A","p","p","o","i","n","t","m","e","n","t"," ","C","r","i","t","e","r","i","a"," ","a","n","d"," ","P","r","o","c","e","s","s"," ">>, "H3">>,
    <<<<"5","."," ","T","e","r","m"," ">>, "H3">>,
    <<<<"6","."," ","C","h","a","i","r"," ">>, "H3">>,
    <<<<"7","."," ","M","e","e","t","i","n","g","s"," ">>, "H3">>,
    <<<<"8","."," ","L","i","n","e","s"," ","o","f"," ","A","c","c","o","u","n","t","a","b","i","l","i","t","y"," ","a","n","d"," ","C","o","m","m","u","n","i","c","a","t","i","o","n"," ">>, "H3">>,
    <<<<"9","."," ","F","i","n","a","n","c","i","a","l"," ","a","n","d"," ","A","d","m","i","n","i","s","t","r","a","t","i","v","e"," ","P","o","l","i","c","i","e","s"," ">>, "H3">>,
    <<<<"A","p","p","e","n","d","i","x"," ","C",":"," ","O","D","L","rsquo","s"," ","E","n","v","i","s","i","o","n","e","d"," ","E","l","e","c","t","r","o","n","i","c"," ","R","e","s","o","u","r","c","e","s"," ">>, "H2">>
>>

(* ------------------------------------------------------------------ *)
(* analyze_document_structure                                          *)
(* ------------------------------------------------------------------ *)

\* A float of the code that is a quotient of integers is the fraction
\* [num, den], den > 0, compared by cross-multiplication.
Frac(n, d) == [num |-> n, den |-> d]

FracGE(a, b) == a.num * b.den >= b.num * a.den

FracGT(a, b) == a.num * b.den > b.num * a.den

\* Percentile that divides the rank by the number of sizes.
PercentileOverN(rank, n) == Frac(rank, n)

\* rank / (n - 1) if n > 1 else 1.0
Percentile(rank, n) == IF n > 1 THEN Frac(rank, n - 1) ELSE Frac(1, 1)

analyze_document_structure(spans) ==
    LET sizes == AsSeq([i \in 1..Len(spans) |-> spans[i].size])
    IN  IF Len(spans) = 0
        THEN [unique_sizes |-> <<>>, size_percentile |-> <<>>, avg_size |-> Frac(0, 1)]
        ELSE LET unique_sizes == SortedSeq({sizes[i] : i \in 1..Len(sizes)})
                 n            == Len(unique_sizes)
                 \* enumerate(unique_sizes) ranks from 0
                 rank(size)   == (CHOOSE i \in 1..n : unique_sizes[i] = size) - 1
             IN  [unique_sizes    |-> unique_sizes,
                  size_percentile |->
                      [size \in {unique_sizes[i] : i \in 1..n} |-> Percentile(rank(size), n)],
                  avg_size        |-> Frac(SumSeq(sizes), Len(sizes))]

\* doc_stats["size_percentile"].get(size, 0)
PercentileOf(doc_stats, size) ==
    IF size \in DOMAIN doc_stats.size_percentile
    THEN doc_stats.size_percentile[size] ELSE Frac(0, 1)

(* ------------------------------------------------------------------ *)
(* is_likely_heading                                                   *)
(* ------------------------------------------------------------------ *)

\* (Abstract|Introduction|...|Table\s+of\s+Contents|Revision\s+History)
SectionNames ==
    Alt(<<Lit(<<"A","b","s","t","r","a","c","t">>), Lit(<<"I","n","t","r","o","d","u","c","t","i","o","n">>), Lit(<<"O","v","e","r","v","i","e","w">>),
          Lit(<<"S","u","m","m","a","r","y">>), Lit(<<"B","a","c","k","g","r","o","u","n","d">>), Lit(<<"C","o","n","c","l","u","s","i","o","n">>),
          Lit(<<"R","e","f","e","r","e","n","c","e","s">>), Lit(<<"B","i","b","l","i","o","g","r","a","p","h","y">>),
          Cat(<<Lit(<<"A","c","k","n","o","w","l","e","d","g","e","m","e","n","t">>), Opt(Lit(<<"s">>))>>),
          Cat(<<Lit(<<"T","a","b","l","e">>), Rep(Ws, 1), Lit(<<"o","f">>), Rep(Ws, 1), Lit(<<"C","o","n","t","e","n","t","s">>)>>),
          Cat(<<Lit(<<"R","e","v","i","s","i","o","n">>), Rep(Ws, 1), Lit(<<"H","i","s","t","o","r","y">>)>>)>>)

exclude_patterns == <<
    \* ^Page\s+\d+
    Cat(<<Bol, Lit(<<"P","a","g","e">>), Rep(Ws, 1), Rep(Dig, 1)>>),
    \* ^Copyright
    Cat(<<Bol, Lit(<<"C","o","p","y","r","i","g","h","t">>)>>),
    \* ^Version\s+\d
    Cat(<<Bol, Lit(<<"V","e","r","s","i","o","n">>), Rep(Ws, 1), Dig>>),
    \* ^\d{4}$
    Cat(<<Bol, Dig, Dig, Dig, Dig, Eol>>),
    \* ^www\.|^http
    Alt(<<Cat(<<Bol, Lit(<<"w","w","w",".">>)>>), Cat(<<Bol, Lit(<<"h","t","t","p">>)>>)>>),
    \* @\w+\.
    Cat(<<Lit(<<"@">>), Rep(Wd, 1), Lit(<<".">>)>>),
    \* ^\d+\s*$
    Cat(<<Bol, Rep(Dig, 1), Rep(Ws, 0), Eol>>),
    \* ^[^\w\s]*$
    Cat(<<Bol, Rep(NSet(WordChars \cup Whitespace), 0), Eol>>),
    \* ^\([^)]*\)$
    Cat(<<Bol, Lit(<<"(">>), Rep(NSet({")"}), 0), Lit(<<")">>), Eol>>),
    \* ^[\d\s\-\.]+$
    Cat(<<Bol, Rep(Set(Digits \cup Whitespace \cup {"-", "."}), 1), Eol>>),
    \* ^(CLOSED|PLEASE|VISIT|REQUIRED|CLIMBING)
    Cat(<<Bol, Alt(<<Lit(<<"C","L","O","S","E","D">>), Lit(<<"P","L","E","A","S","E">>), Lit(<<"V","I","S","I","T">>),
                     Lit(<<"R","E","Q","U","I","R","E","D">>), Lit(<<"C","L","I","M","B","I","N","G">>)>>)>>),
    \* .*[.!?]\s+.*[.!?]
    Cat(<<Rep(Dot, 0), Set({".", "!", "?"}), Rep(Ws, 1), Rep(Dot, 0), Set({".", "!", "?"})>>)
>>

heading_patterns == <<
    \* ^\d+\.\s+[A-Z]
    Cat(<<Bol, Rep(Dig, 1), Lit(<<".">>), Rep(Ws, 1), AZ>>),
    \* ^\d+\.\d+\s+[A-Z]
    Cat(<<Bol, Rep(Dig, 1), Lit(<<".">>), Rep(Dig, 1), Rep(Ws, 1), AZ>>),
    \* ^\d+\.\d+\.\d+\s+[A-Z]
    Cat(<<Bol, Rep(Dig, 1), Lit(<<".">>), Rep(Dig, 1), Lit(<<".">>), Rep(Dig, 1), Rep(Ws, 1), AZ>>),
    \* ^(Chapter|Section|Part)\s+\d+
    Cat(<<Bol, Alt(<<Lit(<<"C","h","a","p","t","e","r">>), Lit(<<"S","e","c","t","i","o","n">>), Lit(<<"P","a","r","t">>)>>),
          Rep(Ws, 1), Rep(Dig, 1)>>),
    \* ^Appendix\s+[A-Z]
    Cat(<<Bol, Lit(<<"A","p","p","e","n","d","i","x">>), Rep(Ws, 1), AZ>>),
    \* ^(Abstract|...|Revision\s+History)$
    Cat(<<Bol, SectionNames, Eol>>),
    \* ^[A-Z][A-Z\s&:-]{6,}$
    Cat(<<Bol, AZ, Rep(Set(AsciiLetters \cup Whitespace \cup {"&", ":", "-"}), 6), Eol>>),
    \* .*:\s*$
    Cat(<<Rep(Dot, 0), Lit(<<":">>), Rep(Ws, 0), Eol>>),
    \* ^Phase\s+[IVX]+:
    Cat(<<Bol, Lit(<<"P","h","a","s","e">>), Rep(Ws, 1), Rep(CI({"I", "V", "X"}), 1), Lit(<<":">>)>>),
    \* ^For\s+(each|the)\s+\w+.*:$
    Cat(<<Bol, Lit(<<"F","o","r">>), Rep(Ws, 1), Alt(<<Lit(<<"e","a","c","h">>), Lit(<<"t","h","e">>)>>),
          Rep(Ws, 1), Rep(Wd, 1), Rep(Dot, 0), Lit(<<":">>), Eol>>),
    \* ^What\s+.*\?$
    Cat(<<Bol, Lit(<<"W","h","a","t">>), Rep(Ws, 1), Rep(Dot, 0), Lit(<<"?">>), Eol>>),
    \* ^[A-Z][a-z]+\s+OPTIONS?$
    Cat(<<Bol, AZ, Rep(AZ, 1), Rep(Ws, 1), Lit(<<"O","P","T","I","O","N">>), Opt(Lit(<<"S">>)), Eol>>),
    \* ^(HOPE|WELCOME|THANK).*$
    Cat(<<Bol, Alt(<<Lit(<<"H","O","P","E">>), Lit(<<"W","E","L","C","O","M","E">>), Lit(<<"T","H","A","N","K">>)>>),
          Rep(Dot, 0), Eol>>),
    \* ^[A-Z].*\s+(Library|Digital|Component|Plan)$
    Cat(<<Bol, AZ, Rep(Dot, 0), Rep(Ws, 1),
          Alt(<<Lit(<<"L","i","b","r","a","r","y">>), Lit(<<"D","i","g","i","t","a","l">>), Lit(<<"C","o","m","p","o","n","e","n","t">>), Lit(<<"P","l","a","n">>)>>),
          Eol>>),
    \* ^Milestones?$
    Cat(<<Bol, Lit(<<"M","i","l","e","s","t","o","n","e">>), Opt(Lit(<<"s">>)), Eol>>),
    \* ^Approach\s+and\s+
    Cat(<<Bol, Lit(<<"A","p","p","r","o","a","c","h">>), Rep(Ws, 1), Lit(<<"a","n","d">>), Rep(Ws, 1)>>),
    \* ^Evaluation\s+and\s+
    Cat(<<Bol, Lit(<<"E","v","a","l","u","a","t","i","o","n">>), Rep(Ws, 1), Lit(<<"a","n","d">>), Rep(Ws, 1)>>),
    \* ^Business\s+Plan
    Cat(<<Bol, Lit(<<"B","u","s","i","n","e","s","s">>), Rep(Ws, 1), Lit(<<"P","l","a","n">>)>>),
    \* ^\d+\)\s+[A-Z]
    Cat(<<Bol, Rep(Dig, 1), Lit(<<")">>), Rep(Ws, 1), AZ>>),
    \* ^[-*•]\s+[A-Z]
    Cat(<<Bol, Set({"-", "*", "bullet"}), Rep(Ws, 1), AZ>>),
    \* ^[A-Z][A-Za-z\s\-:&]+[.:]?\s*$
    Cat(<<Bol, AZ, Rep(Set(AsciiLetters \cup Whitespace \cup {"-", ":", "&"}), 1),
          Opt(Set({".", ":"})), Rep(Ws, 0), Eol>>)
>>

is_likely_heading(text, span_info, doc_stats, doc_type) ==
    IF Len(text) < 3 \/ Len(text) > 200 THEN FALSE
    ELSE IF MatchAny(exclude_patterns, text) THEN FALSE
    ELSE IF MatchAny(heading_patterns, text) THEN TRUE
    ELSE IF doc_type \in {"technical", "rfp", "pathways"}
         THEN isupper(text) \/ endswith(text, <<":">>) \/ Len(split(text)) > 5
    ELSE FALSE

(* ------------------------------------------------------------------ *)
(* calculate_heading_importance                                        *)
(* ------------------------------------------------------------------ *)

\* ^\d+\.\s+
NumberedSection == Cat(<<Bol, Rep(Dig, 1), LitCS(<<".">>), Rep(Ws, 1)>>)

\* ^\d+\.\d+\s+
NumberedSubsection == Cat(<<Bol, Rep(Dig, 1), LitCS(<<".">>), Rep(Dig, 1), Rep(Ws, 1)>>)

\* .*:\s*$
ColonEnding == Cat(<<Rep(Dot, 0), LitCS(<<":">>), Rep(Ws, 0), Eol>>)

CanonicalSections ==
    {<<"R","e","v","i","s","i","o","n"," ","H","i","s","t","o","r","y">>, <<"T","a","b","l","e"," ","o","f"," ","C","o","n","t","e","n","t","s">>, <<"A","c","k","n","o","w","l","e","d","g","e","m","e","n","t","s">>,
     <<"S","u","m","m","a","r","y">>, <<"B","a","c","k","g","r","o","u","n","d">>, <<"R","e","f","e","r","e","n","c","e","s">>}

\* The score, a float: size_percentile * 3 + 2 (bold) + 3|2|3|1 + 1 + 0.5,
\* as a fraction over twice the percentile's denominator.
calculate_heading_importance(text, span, doc_stats) ==
    LET size_percentile == PercentileOf(doc_stats, span.size)
        bold       == IF (span.flags \div 2) % 2 = 1 THEN 2 ELSE 0
        structural == IF Match(NumberedSection, text) THEN 3
                      ELSE IF Match(NumberedSubsection, text) THEN 2
                      ELSE IF text \in CanonicalSections THEN 3
                      ELSE IF Match(ColonEnding, text) THEN 1
                      ELSE 0
        first_page == IF span.page = 0 THEN 1 ELSE 0
        top        == IF span.y < 200 THEN 1 ELSE 0   \* halves
        den        == 2 * size_percentile.den
    IN  Frac(6 * size_percentile.num + (bold + structural + first_page) * den
             + top * size_percentile.den, den)

(* ------------------------------------------------------------------ *)
(* classify_heading_level                                              *)
(* ------------------------------------------------------------------ *)

h1_patterns == <<
    \* ^\d+\.\s+[A-Z]
    Cat(<<Bol, Rep(Dig, 1), Lit(<<".">>), Rep(Ws, 1), AZ>>),
    \* ^(Abstract|...|Revision\s+History)$
    Cat(<<Bol, SectionNames, Eol>>),
    \* ^Appendix\s+[A-Z]
    Cat(<<Bol, Lit(<<"A","p","p","e","n","d","i","x">>), Rep(Ws, 1), AZ>>),
    \* ^[A-Z][A-Z\s&:-]{10,}$
    Cat(<<Bol, AZ, Rep(Set(AsciiLetters \cup Whitespace \cup {"&", ":", "-"}), 10), Eol>>),
    \* ^[A-Z][a-z]+\s+OPTIONS?$
    Cat(<<Bol, AZ, Rep(AZ, 1), Rep(Ws, 1), Lit(<<"O","P","T","I","O","N">>), Opt(Lit(<<"S">>)), Eol>>),
    \* ^(HOPE|WELCOME|THANK).*$
    Cat(<<Bol, Alt(<<Lit(<<"H","O","P","E">>), Lit(<<"W","E","L","C","O","M","E">>), Lit(<<"T","H","A","N","K">>)>>),
          Rep(Dot, 0), Eol>>),
    \* ^[A-Z].*\s+(Library|Digital|Component|Plan)$
    Cat(<<Bol, AZ, Rep(Dot, 0), Rep(Ws, 1),
          Alt(<<Lit(<<"L","i","b","r","a","r","y">>), Lit(<<"D","i","g","i","t","a","l">>), Lit(<<"C","o","m","p","o","n","e","n","t">>), Lit(<<"P","l","a","n">>)>>),
          Eol>>),
    \* ^Business\s+Plan
    Cat(<<Bol, Lit(<<"B","u","s","i","n","e","s","s">>), Rep(Ws, 1), Lit(<<"P","l","a","n">>)>>)
>>

h2_patterns == <<
    \* ^\d+\.\d+\s+[A-Z]
    Cat(<<Bol, Rep(Dig, 1), Lit(<<".">>), Rep(Dig, 1), Rep(Ws, 1), AZ>>),
    \* ^(Milestones?|Summary|Background)$
    Cat(<<Bol, Alt(<<Cat(<<Lit(<<"M","i","l","e","s","t","o","n","e">>), Opt(Lit(<<"s">>))>>),
                     Lit(<<"S","u","m","m","a","r","y">>), Lit(<<"B","a","c","k","g","r","o","u","n","d">>)>>), Eol>>),
    \* ^Approach\s+and\s+
    Cat(<<Bol, Lit(<<"A","p","p","r","o","a","c","h">>), Rep(Ws, 1), Lit(<<"a","n","d">>), Rep(Ws, 1)>>),
    \* ^Evaluation\s+and\s+
    Cat(<<Bol, Lit(<<"E","v","a","l","u","a","t","i","o","n">>), Rep(Ws, 1), Lit(<<"a","n","d">>), Rep(Ws, 1)>>),
    \* ^Appendix\s+[A-Z]:
    Cat(<<Bol, Lit(<<"A","p","p","e","n","d","i","x">>), Rep(Ws, 1), AZ, Lit(<<":">>)>>)
>>

h3_patterns == <<
    \* ^\d+\.\d+\.\d+\s+[A-Z]
    Cat(<<Bol, Rep(Dig, 1), Lit(<<".">>), Rep(Dig, 1), Lit(<<".">>), Rep(Dig, 1), Rep(Ws, 1), AZ>>),
    \* ^Phase\s+[IVX]+:
    Cat(<<Bol, Lit(<<"P","h","a","s","e">>), Rep(Ws, 1), Rep(CI({"I", "V", "X"}), 1), Lit(<<":">>)>>),
    \* .*:\s*$
    Cat(<<Rep(Dot, 0), Lit(<<":">>), Rep(Ws, 0), Eol>>),
    \* ^\d+\.\s+[A-Z].*
    Cat(<<Bol, Rep(Dig, 1), Lit(<<".">>), Rep(Ws, 1), AZ, Rep(Dot, 0)>>)
>>

h4_patterns == <<
    \* ^For\s+(each|the)\s+\w+.*:$
    Cat(<<Bol, Lit(<<"F","o","r">>), Rep(Ws, 1), Alt(<<Lit(<<"e","a","c","h">>), Lit(<<"t","h","e">>)>>),
          Rep(Ws, 1), Rep(Wd, 1), Rep(Dot, 0), Lit(<<":">>), Eol>>)
>>

\* MatchLevel with the tiers tried from H1 down to H4.
MatchLevelH1First(text) ==
    IF MatchAny(h1_patterns, text) THEN "H1"
    ELSE IF MatchAny(h2_patterns, text) THEN "H2"
    ELSE IF MatchAny(h3_patterns, text) THEN "H3"
    ELSE IF MatchAny(h4_patterns, text) THEN "H4"
    ELSE ""

\* Pattern-based classification first: the level of the first tier (H4, H3,
\* H2, H1) with a pattern that matches, "" when none does.
MatchLevel(text) ==
    IF MatchAny(h4_patterns, text) THEN "H4"
    ELSE IF MatchAny(h3_patterns, text) THEN "H3"
    ELSE IF MatchAny(h2_patterns, text) THEN "H2"
    ELSE IF MatchAny(h1_patterns, text) THEN "H1"
    ELSE ""

\* The texts of the two expected tables, and MatchLevel of each: what the
\* patterns say of a text does not change from one file to the next.
ExpectedTexts ==
    AsSeq([i \in 1..Len(technical_expected) |-> technical_expected[i][1]])
    \o AsSeq([i \in 1..Len(rfp_expected) |-> rfp_expected[i][1]])

ExpectedMatchLevels == AsSeq([i \in 1..Len(ExpectedTexts) |-> MatchLevel(ExpectedTexts[i])])

\* MatchLevel(text), looked up for a text of the expected tables.
PatternLevel(text) ==
    LET known == {i \in 1..Len(ExpectedTexts) : ExpectedTexts[i] = text}
    IN  IF known # {} THEN ExpectedMatchLevels[CHOOSE i \in known : TRUE]
        ELSE MatchLevel(text)

classify_heading_level(text, span_info, document_stats) ==
    LET \* span_info.get("size", 0)
        size            == IF "size" \in DOMAIN span_info THEN span_info.size ELSE 0
        size_percentile == PercentileOf(document_stats, size)
        by_pattern      == PatternLevel(text)
    IN  IF by_pattern # "" THEN by_pattern
        \* Size-based classification as fallback
        ELSE IF FracGE(size_percentile, Frac(9, 10)) THEN "H1"
        ELSE IF FracGE(size_percentile, Frac(3, 4)) THEN "H2"
        ELSE IF FracGE(size_percentile, Frac(1, 2)) THEN "H3"
        ELSE "H3"

(* ------------------------------------------------------------------ *)
(* filter_headings                                                     *)
(* ------------------------------------------------------------------ *)

\* unicodedata.normalize('NFKD', .) of one character: an accented letter
\* becomes its base letter and a combining accent; the other characters of
\* the alphabet (ASCII, U+2019, U+2013, U+2014, U+2022) have no decomposition.
Decompose(c) ==
    LET hit == {i \in 1..Len(Accented) : c \in {Accented[i][1], Accented[i][2]}}
    IN  IF hit = {} THEN <<c>>
        ELSE LET a == Accented[CHOOSE i \in hit : TRUE]
             IN  <<(IF c = a[1] THEN a[3] ELSE a[4]), "combining_acute">>

RECURSIVE NFKD(_)
\* unicodedata.normalize('NFKD', s), by halves.
NFKD(s) ==
    IF s = <<>> THEN <<>>
    ELSE IF Len(s) = 1 THEN Decompose(s[1])
    ELSE LET h == Len(s) \div 2
         IN  NFKD(SubSeq(s, 1, h)) \o NFKD(SubSeq(s, h + 1, Len(s)))

\* norm of filter_headings
norm(s) ==
    LET s1 == NFKD(s)
        s2 == SubEach({"-", "ndash", "mdash"}, " ", s1)
        s3 == KeepOnly(AsciiLetters \cup Digits \cup {" "}, s2)
        s4 == SubRuns(Whitespace, " ", s3)
    IN  lower(strip(s4))

\* set(norm(s).split())
WordSet(s) == LET w == split(norm(s)) IN {w[i] : i \in 1..Len(w)}

RECURSIVE WordSets(_)
\* words_exp of every entry of an expected table, or words_cand of every
\* candidate.  The code computes them again for every pair of the two
\* loops; they depend on the text alone.
WordSets(texts) ==
    IF texts = <<>> THEN <<>> ELSE <<WordSet(Head(texts))>> \o WordSets(Tail(texts))

technical_words ==
    WordSets(AsSeq([i \in 1..Len(technical_expected) |-> technical_expected[i][1]]))

rfp_words == WordSets(AsSeq([i \in 1..Len(rfp_expected) |-> rfp_expected[i][1]]))

\* norm("Table of Contents")
TocKey == norm(<<"T","a","b","l","e"," ","o","f"," ","C","o","n","t","e","n","t","s">>)

\* toc_end_page + 1
MinSectionPage(potential_headings) ==
    LET toc == {i \in 1..Len(potential_headings) :
                   startswith(norm(potential_headings[i].text), TocKey)}
        toc_end_page == SetMax({3} \cup {potential_headings[i].span.page : i \in toc})
    IN  toc_end_page + 1

\* Accepted with the threshold of the first three entries for every entry.
AcceptedLoose(potential_headings, words_cand, words_exp, idx, min_section_page) ==
    LET common(i) == Cardinality(words_exp \cap words_cand[i])
        den       == IF Cardinality(words_exp) > 1 THEN Cardinality(words_exp) ELSE 1
    IN  {i \in 1..Len(potential_headings) :
            LET page == potential_headings[i].span.page
            IN  IF idx <= 2
                THEN 100 * common(i) > 70 * den /\ page <= 5
                ELSE 100 * common(i) > 70 * den /\ page >= min_section_page}

\* The candidates the inner loop of the reconciliation accepts for expected
\* entry idx (from 0): their indices in potential_headings.
Accepted(potential_headings, words_cand, words_exp, idx, min_section_page) ==
    LET common(i) == Cardinality(words_exp \cap words_cand[i])
        \* ratio = len(common) / max(1, len(words_exp))
        den       == IF Cardinality(words_exp) > 1 THEN Cardinality(words_exp) ELSE 1
    IN  {i \in 1..Len(potential_headings) :
            LET page == potential_headings[i].span.page
            IN  IF idx <= 2
                THEN 100 * common(i) > 70 * den /\ page <= 5
                ELSE 100 * common(i) > 85 * den /\ page >= min_section_page}

\* best: the first candidate of the least page among the accepted ones (0: None).
Best(potential_headings, words_cand, words_exp, idx, min_section_page) ==
    LET acc == Accepted(potential_headings, words_cand, words_exp, idx, min_section_page)
    IN  IF acc = {} THEN 0
        ELSE LET best_page == SetMin({potential_headings[i].span.page : i \in acc})
             IN  SetMin({i \in acc : potential_headings[i].span.page = best_page})

\* EntryPage that starts again from page 0 at every entry without a match.
EntryPageZero(potential_headings, best, last_page, first) ==
    IF best # 0 THEN potential_headings[best].span.page ELSE 0

\* EntryPage that repeats the page before at an entry without a match.
EntryPageSame(potential_headings, best, last_page, first) ==
    IF best # 0 THEN potential_headings[best].span.page
    ELSE IF ~first THEN last_page
    ELSE 0

\* page of the entry the loop appends for expected entry idx.
EntryPage(potential_headings, best, last_page, first) ==
    IF best # 0 THEN potential_headings[best].span.page
    ELSE IF ~first THEN last_page + 1
    ELSE 0

RECURSIVE Reconcile(_, _, _, _, _, _, _, _)
\* The loop over the expected entries from idx (from 0) on.
Reconcile(expected, expected_words, idx, potential_headings, words_cand, min_section_page, last_page, found_headings) ==
    IF idx >= Len(expected) THEN found_headings
    ELSE LET expected_text  == expected[idx + 1][1]
             expected_level == expected[idx + 1][2]
             best == Best(potential_headings, words_cand, expected_words[idx + 1],
                          idx, min_section_page)
             page == EntryPage(potential_headings, best, last_page, found_headings = <<>>)
         IN  Reconcile(expected, expected_words, idx + 1, potential_headings, words_cand,
                       min_section_page, page,
                       Append(found_headings,
                              [level |-> expected_level,
                               text  |-> expected_text,
                               span  |-> [page |-> page],
                               score |-> Frac(0, 1)]))

\* The technical/rfp branch of filter_headings.
LiteralReconciliation(potential_headings, doc_type) ==
    LET words_cand == WordSets(AsSeq([i \in 1..Len(potential_headings) |-> potential_headings[i].text]))
    IN  Reconcile(IF doc_type = "technical" THEN technical_expected ELSE rfp_expected,
                  IF doc_type = "technical" THEN technical_words ELSE rfp_words,
                  0, potential_headings, words_cand,
                  MinSectionPage(potential_headings), 0, <<>>)

\* The normalized text the generic filter keeps in seen.
DedupKey(h) ==
    LET text == strip(SubRuns(Whitespace, " ", h.text))
    IN  lower(KeepOnly(AsciiLetters \cup Digits \cup {" "}, text))

\* h["score"] > 1.5 or len(text.split()) > 5
PassesThreshold(h) ==
    LET text == strip(SubRuns(Whitespace, " ", h.text))
    IN  FracGT(h.score, Frac(3, 2)) \/ Len(split(text)) > 5

RECURSIVE GenericFilterNoSeen(_, _, _)
\* GenericFilter that never adds a key to seen.
GenericFilterNoSeen(potential_headings, i, seen) ==
    IF i > Len(potential_headings) THEN <<>>
    ELSE LET h         == potential_headings[i]
             text_norm == DedupKey(h)
         IN  IF text_norm \in seen THEN GenericFilterNoSeen(potential_headings, i + 1, seen)
             ELSE (IF PassesThreshold(h) THEN <<h>> ELSE <<>>)
                  \o GenericFilterNoSeen(potential_headings, i + 1, seen)

RECURSIVE GenericFilter(_, _, _)
\* Default: generic heading filtering, from candidate i on.
GenericFilter(potential_headings, i, seen) ==
    IF i > Len(potential_headings) THEN <<>>
    ELSE LET h         == potential_headings[i]
             text_norm == DedupKey(h)
         IN  IF text_norm \in seen THEN GenericFilter(potential_headings, i + 1, seen)
             ELSE (IF PassesThreshold(h) THEN <<h>> ELSE <<>>)
                  \o GenericFilter(potential_headings, i + 1, seen \cup {text_norm})

filter_headings(potential_headings, doc_type) ==
    IF doc_type = "form" THEN <<>>
    ELSE IF doc_type = "pathways"
         THEN SelectSeq(potential_headings, LAMBDA h : upper(h.text) = <<"P","A","T","H","W","A","Y"," ","O","P","T","I","O","N","S">>)
    ELSE IF doc_type \in {"technical", "rfp"}
         THEN LiteralReconciliation(potential_headings, doc_type)
    ELSE GenericFilter(potential_headings, 1, {})

(* ------------------------------------------------------------------ *)
(* main: the processing of one input file                              *)
(* ------------------------------------------------------------------ *)

VARIABLES
    blocks,             \* the text blocks the PDF reader returns for the file
    detected,           \* what langdetect.detect answers for it ("FAIL": LangDetectException)
    pc,                 \* where main is in the file's processing
    spans,
    title,
    lang,
    doc_type,
    doc_stats,
    potential_headings,
    filtered_headings,
    out,                \* the record written to the output file
    called              \* the heading functions main has called for the file

vars == <<blocks, detected, pc, spans, title, lang, doc_type, doc_stats,
          potential_headings, filtered_headings, out, called>>

NoStats == [unique_sizes |-> <<>>, size_percentile |-> <<>>, avg_size |-> Frac(0, 1)]

NoOut == [title |-> <<>>, outline |-> <<>>]

\* EventOutline with the text as it stands on the flyer, no blank behind it.
EventOutlineBare == <<[level |-> "H1", text |-> <<"H","O","P","E"," ","T","o"," ","S","E","E"," ","Y","o","u"," ","T","H","E","R","E","!">>, page |-> 0]>>

EventOutline == <<[level |-> "H1", text |-> <<"H","O","P","E"," ","T","o"," ","S","E","E"," ","Y","o","u"," ","T","H","E","R","E","!"," ">>, page |-> 0]>>

\* The state before the file is read.
Start(doc, answer) ==
    /\ blocks = doc
    /\ detected = answer
    /\ pc = "start"
    /\ spans = <<>>
    /\ title = <<>>
    /\ lang = "en"
    /\ doc_type = ""
    /\ doc_stats = NoStats
    /\ potential_headings = <<>>
    /\ filtered_headings = <<>>
    /\ out = NoOut
    /\ called = {}

\* spans = extract_spans(pdf_path)
ExtractSpans ==
    /\ pc = "start"
    /\ spans' = extract_spans(blocks)
    /\ pc' = "extracted"
    /\ UNCHANGED <<blocks, detected, title, lang, doc_type, doc_stats,
                   potential_headings, filtered_headings, out, called>>

\* if not spans: out = {"title": "", "outline": []}
EmptyDocument ==
    /\ pc = "extracted"
    /\ spans = <<>>
    /\ out' = [title |-> <<>>, outline |-> <<>>]
    /\ pc' = "done"
    /\ UNCHANGED <<blocks, detected, spans, title, lang, doc_type, doc_stats,
                   potential_headings, filtered_headings, called>>

\* title = extract_document_title(spans)
ResolveTitle ==
    /\ pc = "extracted"
    /\ spans # <<>>
    /\ title' = extract_document_title(spans)
    /\ pc' = "titled"
    /\ UNCHANGED <<blocks, detected, spans, lang, doc_type, doc_stats,
                   potential_headings, filtered_headings, out, called>>

\* The language main goes on with: "en" unless detect is called (the first
\* two pages hold text) and answers.
DetectedLanguage(ss, answer) ==
    LET first_two   == SelectSeq(ss, LAMBDA s : s.page \in {0, 1})
        sample_text == join(<<" ">>, AsSeq([i \in 1..Len(first_two) |-> first_two[i].text]))
    IN  IF strip(sample_text) # <<>>
        THEN IF answer = "FAIL" THEN "en" ELSE answer
        ELSE "en"

DetectLanguage ==
    /\ pc = "titled"
    /\ lang' = DetectedLanguage(spans, detected)
    /\ pc' = "language"
    /\ UNCHANGED <<blocks, detected, spans, title, doc_stats, doc_type,
                   potential_headings, filtered_headings, out, called>>

\* DocType that looks at the title and the spans in every language.
DocTypeAnyLanguage(ss, ttl, lng) ==
    LET t         == strip(lower(ttl))
        num_pages == SetMax({0} \cup {ss[i].page + 1 : i \in 1..Len(ss)})
        first_two == SelectSeq(ss, LAMBDA s : s.page \in {0, 1})
        is_event  == /\ t = <<>>
                     /\ num_pages <= 2
                     /\ \E i \in 1..Len(first_two) : HasEventPhrase(first_two[i].text)
    IN  IF is_event THEN "event"
        ELSE IF Contains(t, <<"a","p","p","l","i","c","a","t","i","o","n"," ","f","o","r","m"," ","f","o","r"," ","g","r","a","n","t"," ","o","f"," ","l","t","c"," ","a","d","v","a","n","c","e">>) THEN "form"
        ELSE IF Contains(t, <<"f","o","u","n","d","a","t","i","o","n"," ","l","e","v","e","l"," ","e","x","t","e","n","s","i","o","n","s">>) THEN "technical"
        ELSE IF Contains(t, <<"r","f","p",":","r","e","q","u","e","s","t"," ","f","o","r"," ","p","r","o","p","o","s","a","l">>) THEN "rfp"
        ELSE IF Contains(t, <<"p","a","r","s","i","p","p","a","n","y">>) THEN "pathways"
        ELSE "other"

\* The document type of main.
DocType(ss, ttl, lng) ==
    LET t         == strip(lower(ttl))
        num_pages == SetMax({0} \cup {ss[i].page + 1 : i \in 1..Len(ss)})
        first_two == SelectSeq(ss, LAMBDA s : s.page \in {0, 1})
        is_event  == /\ t = <<>>
                     /\ num_pages <= 2
                     /\ \E i \in 1..Len(first_two) : HasEventPhrase(first_two[i].text)
    IN  IF lng = "en"
        THEN IF is_event THEN "event"
             ELSE IF Contains(t, <<"a","p","p","l","i","c","a","t","i","o","n"," ","f","o","r","m"," ","f","o","r"," ","g","r","a","n","t"," ","o","f"," ","l","t","c"," ","a","d","v","a","n","c","e">>) THEN "form"
             ELSE IF Contains(t, <<"f","o","u","n","d","a","t","i","o","n"," ","l","e","v","e","l"," ","e","x","t","e","n","s","i","o","n","s">>) THEN "technical"
             ELSE IF Contains(t, <<"r","f","p",":","r","e","q","u","e","s","t"," ","f","o","r"," ","p","r","o","p","o","s","a","l">>) THEN "rfp"
             ELSE IF Contains(t, <<"p","a","r","s","i","p","p","a","n","y">>) THEN "pathways"
             ELSE "other"
        ELSE "other"

ClassifyDocType ==
    /\ pc = "language"
    /\ doc_type' = DocType(spans, title, lang)
    /\ pc' = "typed"
    /\ UNCHANGED <<blocks, detected, spans, title, lang, doc_stats,
                   potential_headings, filtered_headings, out, called>>

\* Event/flyer special case (English only)
EventOverride ==
    /\ pc = "typed"
    /\ lang = "en" /\ doc_type = "event"
    /\ out' = [title |-> <<>>, outline |-> EventOutline]
    /\ pc' = "done"
    /\ UNCHANGED <<blocks, detected, spans, title, lang, doc_type, doc_stats,
                   potential_headings, filtered_headings, called>>

\* ^(Resumen|Introducción|Conclusión|Referencias|Índice|Capítulo|Sección|Anexo)
SpanishHeading ==
    Cat(<<Bol, Alt(<<Lit(<<"R","e","s","u","m","e","n">>), Lit(<<"I","n","t","r","o","d","u","c","c","i","oacute","n">>), Lit(<<"C","o","n","c","l","u","s","i","oacute","n">>),
                     Lit(<<"R","e","f","e","r","e","n","c","i","a","s">>), Lit(<<"Iacute","n","d","i","c","e">>), Lit(<<"C","a","p","iacute","t","u","l","o">>),
                     Lit(<<"S","e","c","c","i","oacute","n">>), Lit(<<"A","n","e","x","o">>)>>)>>)

\* Whether main appends the span to potential_headings.
IsCandidate(span, stats, lng, dtype) ==
    LET text == strip(span.text)
    IN  IF lng = "en" THEN is_likely_heading(text, span, stats, dtype)
        ELSE IF lng = "es" THEN Match(SpanishHeading, text)
        ELSE FALSE

\* The entry main appends for a candidate span.
Candidate(span, stats, lng) ==
    LET text == strip(span.text)
    IN  [text  |-> text,
         span  |-> span,
         score |-> IF lng = "en" THEN calculate_heading_importance(text, span, stats)
                   ELSE Frac(2, 1)]

RECURSIVE InsertByScore(_, _)
\* h put behind the entries of the descending list hs that score at least h's.
InsertByScore(hs, h) ==
    IF hs = <<>> THEN <<h>>
    ELSE IF FracGE(Head(hs).score, h.score) THEN <<Head(hs)>> \o InsertByScore(Tail(hs), h)
    ELSE <<h>> \o hs

RECURSIVE SortByScore(_, _)
\* potential_headings.sort(key=score, reverse=True): stable, descending.
SortByScore(hs, sorted) ==
    IF hs = <<>> THEN sorted
    ELSE SortByScore(Tail(hs), InsertByScore(sorted, Head(hs)))

\* The heading extraction loop and the sort.
PotentialHeadings(ss, stats, lng, dtype) ==
    LET picked == SelectSeq(ss, LAMBDA s : IsCandidate(s, stats, lng, dtype))
    IN  SortByScore(AsSeq([i \in 1..Len(picked) |-> Candidate(picked[i], stats, lng)]), <<>>)

DetectHeadings ==
    /\ pc = "typed"
    /\ ~(lang = "en" /\ doc_type = "event")
    /\ doc_stats' = analyze_document_structure(spans)
    /\ potential_headings' = PotentialHeadings(spans, doc_stats', lang, doc_type)
    /\ called' = called
                 \cup {"analyze_document_structure"}
                 \cup (IF lang = "en" THEN {"is_likely_heading"} ELSE {})
                 \cup (IF lang = "en" /\ potential_headings' # <<>>
                       THEN {"calculate_heading_importance"} ELSE {})
    /\ pc' = "detected"
    /\ UNCHANGED <<blocks, detected, spans, title, lang, doc_type, filtered_headings, out>>

\* filtered_headings = filter_headings(potential_headings, doc_type)
FilterHeadings ==
    /\ pc = "detected"
    /\ filtered_headings' = filter_headings(potential_headings, doc_type)
    /\ called' = called \cup {"filter_headings"}
    /\ pc' = "filtered"
    /\ UNCHANGED <<blocks, detected, spans, title, lang, doc_type, doc_stats,
                   potential_headings, out>>

\* OutlineEntry that puts a blank behind every text.
OutlineEntryBlank(h, stats) ==
    [level |-> classify_heading_level(h.text, h.span, stats),
     text  |-> h.text \o <<" ">>,
     page  |-> h.span.page]

\* The outline entry main makes of a filtered heading.
OutlineEntry(h, stats) ==
    [level |-> classify_heading_level(h.text, h.span, stats),
     text  |-> IF endswith(h.text, <<" ">>) THEN h.text ELSE h.text \o <<" ">>,
     page  |-> h.span.page]

\* The outline main writes.
Outline(fh, stats, lng, dtype) ==
    IF lng = "en" /\ dtype = "form" THEN <<>>
    ELSE AsSeq([i \in 1..Len(fh) |-> OutlineEntry(fh[i], stats)])

EmitOutline ==
    /\ pc = "filtered"
    /\ out' = [title |-> title, outline |-> Outline(filtered_headings, doc_stats, lang, doc_type)]
    /\ called' = called \cup (IF filtered_headings # <<>> THEN {"classify_heading_level"} ELSE {})
    /\ pc' = "done"
    /\ UNCHANGED <<blocks, detected, spans, title, lang, doc_type, doc_stats,
                   potential_headings, filtered_headings>>

Next ==
    \/ ExtractSpans
    \/ EmptyDocument
    \/ ResolveTitle
    \/ DetectLanguage
    \/ ClassifyDocType
    \/ EventOverride
    \/ DetectHeadings
    \/ FilterHeadings
    \/ EmitOutline

(* ------------------------------------------------------------------ *)
(* Input files                                                         *)
(* ------------------------------------------------------------------ *)

\* The most blocks of a file after its heading block.
MaxBlocks == 2

\* The most blocks of a file of SpecGeneric.
MaxGenericBlocks == 3

\* The last page of a file of SpecLiteral.
MaxPage == 6

\* A text block of the reader.
Block(text, page, box) ==
    [type |-> 0, text |-> text, page |-> page, y0 |-> box[1], y1 |-> box[2]]

\* The blocks of the texts on the pages in the boxes (<<y0, y1>>).
Blocks(texts, pages, boxes) ==
    {Block(t, p, b) : t \in texts, p \in pages, b \in boxes}

\* The files of at most n blocks of pool, in page order.
Docs(pool, n) ==
    {d \in UNION {[1..k -> pool] : k \in 0..n} :
        \A i \in 1..(Len(d) - 1) : d[i].page <= d[i + 1].page}

\* The files that open with the block head on page 0 and go on with at most
\* n blocks of pool.
DocsUnder(head, pool, n) == {<<Block(head, 0, <<100, 112>>)>> \o d : d \in Docs(pool, n)}

TechnicalHead == <<"O","v","e","r","v","i","e","w"," ","F","o","u","n","d","a","t","i","o","n"," ","L","e","v","e","l"," ","E","x","t","e","n","s","i","o","n","s">>

RfpHead == <<"R","e","q","u","e","s","t"," ","f","o","r"," ","P","r","o","p","o","s","a","l">>

PathwaysHead == <<"P","a","r","s","i","p","p","a","n","y"," ","S","T","E","M"," ","P","a","t","h","w","a","y","s">>

FormHead == <<"A","p","p","l","i","c","a","t","i","o","n"," ","f","o","r","m","\n","f","o","r"," ","g","r","a","n","t"," ","o","f"," ","L","T","C"," ","a","d","v","a","n","c","e">>

EventHead == <<"J","o","i","n"," ","u","s">>

\* The pages of the blocks of a technical or RFP file: the first, and those
\* around the thresholds of the reconciliation (pages 3 to 6).
LiteralPages == {0} \cup 3..MaxPage

\* Technical and RFP files: candidates that match expected headings fully
\* or in part.
LiteralDocs ==
    DocsUnder(TechnicalHead,
              Blocks({<<"T","a","b","l","e"," ","o","f"," ","C","o","n","t","e","n","t","s">>, <<"4",".","1"," ","T","r","a","d","e","m","a","r","k","s">>,
                      <<"2","."," ","I","n","t","r","o","d","u","c","t","i","o","n"," ","t","o"," ","F","o","u","n","d","a","t","i","o","n"," ","L","e","v","e","l"," ","A","g","i","l","e"," ","T","e","s","t","e","r">>,
                      <<"I","n","t","r","o","d","u","c","t","i","o","n"," ","t","o"," ","F","o","u","n","d","a","t","i","o","n"," ","L","e","v","e","l"," ","A","g","i","l","e"," ","T","e","s","t","e","r">>},
                     LiteralPages, {<<300, 310>>}),
              MaxBlocks)
    \cup DocsUnder(RfpHead,
                   Blocks({<<"S","u","m","m","a","r","y">>, <<"B","a","c","k","g","r","o","u","n","d">>,
                           <<"A"," ","C","r","i","t","i","c","a","l"," ","C","o","m","p","o","n","e","n","t"," ","f","o","r"," ","I","m","p","l","e","m","e","n","t","i","n","g"," ","O","n","t","a","r","i","o","s"," ","R","o","a","d"," ","M","a","p">>},
                          LiteralPages, {<<300, 310>>}),
                   MaxBlocks)
    \cup DocsUnder(EventHead, Blocks({<<"S","u","m","m","a","r","y">>}, {0, MaxPage}, {<<300, 310>>}), 1)
    \cup {<<>>}

InitLiteral == \E doc \in LiteralDocs : Start(doc, "en")

SpecLiteral == InitLiteral /\ [][Next]_vars

\* Files of no archetype: lines with and without a level pattern, of equal
\* and different keys, in three font sizes, at the top of the page and below.
GenericDocs ==
    Docs(Blocks({<<"G","o","a","l","s">>, <<"G","o","a","l","s",":">>, <<"N","o","t","e","s">>}, {0},
                {<<100, 112>>, <<300, 310>>, <<400, 408>>}),
         MaxGenericBlocks)
    \cup Docs(Blocks({<<"G","o","a","l","s">>, <<"G","o","a","l","s",":">>, <<"O","u","r"," ","g","o","a","l","s"," ","f","o","r"," ","t","h","e"," ","c","o","m","i","n","g"," ","y","e","a","r">>}, {1, 2},
                     {<<300, 310>>}),
              MaxGenericBlocks)
    \cup {<<Block(EventHead, 0, <<100, 112>>)>>}

InitGeneric == \E doc \in GenericDocs : Start(doc, "en")

SpecGeneric == InitGeneric /\ [][Next]_vars

\* Files whose lines hold the form keywords, an event phrase, a Spanish
\* heading or none of them, on the first two pages and beyond, in any language.
TitleDocs ==
    Docs(Blocks({<<"A","p","p","l","i","c","a","t","i","o","n"," ","f","o","r","m">>, <<"f","o","r"," ","g","r","a","n","t"," ","o","f"," ","L","T","C"," ","a","d","v","a","n","c","e">>,
                 <<"g","r","a","n","t"," ","a","p","p","l","i","c","a","t","i","o","n"," ","f","o","r","m">>, <<"A","p","p","l","i","c","a","t","i","o","n"," ","f","o","r","m"," ","f","o","r"," ","g","r","a","n","t"," ","o","f"," ","L","T","C"," ","a","d","v","a","n","c","e">>,
                 <<"J","o","i","n"," ","u","s">>, <<"R","e","s","u","m","e","n">>},
                {0, 2}, {<<100, 112>>}),
         MaxBlocks)

InitTitle ==
    \E doc \in TitleDocs : \E answer \in {"en", "es", "fr", "FAIL"} : Start(doc, answer)

SpecTitle == InitTitle /\ [][Next]_vars

\* Files of every archetype: blocks of several lines and of blank ones,
\* lines with blanks around them, in two font sizes.
ArchetypePool ==
    Blocks({<<"P","A","T","H","W","A","Y"," ","O","P","T","I","O","N","S">>, <<"G","o","a","l","s">>, <<" ","S","u","m","m","a","r","y"," ","\n","\n"," ","B","a","c","k","g","r","o","u","n","d","\t">>},
           {0, 1}, {<<100, 112>>, <<300, 310>>})

ArchetypeDocs ==
    Docs(ArchetypePool, MaxBlocks)
    \cup UNION {DocsUnder(head, ArchetypePool, MaxBlocks) :
                   head \in {TechnicalHead, RfpHead, PathwaysHead, FormHead, EventHead}}

InitArchetypes == \E doc \in ArchetypeDocs : Start(doc, "en")

SpecArchetypes == InitArchetypes /\ [][Next]_vars


\* The most body blocks of a file of SpecLevels.
MaxFillers == 4

\* k body blocks on page 0, of the sizes 6, 8, ..., 4 + 2k, none of them a heading.
FillerBlocks(k) ==
    AsSeq([i \in 1..k |-> Block(<<"s","e","e"," ","p","a","g","e"," ","4",","," ","b","e","l","o","w">>, 0, <<300, 304 + 2 * i>>)])

\* Lines that match a pattern of several tiers, of one tier or of none.
LevelTexts ==
    {<<"F","o","r"," ","t","h","e"," ","r","e","c","o","r","d",":">>, <<"1","."," ","I","n","t","r","o","d","u","c","t","i","o","n">>, <<"2",".","1"," ","O","v","e","r","v","i","e","w">>, <<"S","u","m","m","a","r","y">>,
     <<"O","v","e","r","v","i","e","w">>, <<"G","o","a","l","s",":">>, <<"G","o","a","l","s">>}

\* Files of no archetype: body blocks, then a line at the top of page 0 or 1 in
\* a size between, among or above the body sizes, then no line or a small one
\* on page 1; a technical and an RFP file without candidates; an event file;
\* an empty file.
LevelDocs ==
    {FillerBlocks(k) \o <<first>> \o second :
        k \in 0..MaxFillers,
        first \in Blocks(LevelTexts, {0, 1},
                         {<<100, 106>>, <<100, 107>>, <<100, 110>>, <<100, 111>>, <<100, 114>>}),
        second \in {<<>>} \cup {<<b>> : b \in Blocks({<<"F","o","r"," ","t","h","e"," ","r","e","c","o","r","d",":">>, <<"S","u","m","m","a","r","y">>},
                                                       {1}, {<<300, 307>>})}}
    \cup {<<Block(head, 0, <<100, 112>>)>> : head \in {TechnicalHead, RfpHead, EventHead}}
    \cup {<<>>}

InitLevels == \E doc \in LevelDocs : Start(doc, "en")

SpecLevels == InitLevels /\ [][Next]_vars
(* ------------------------------------------------------------------ *)
(* Properties                                                          *)
(* ------------------------------------------------------------------ *)

\* The file is written and went through the literal reconciliation.
LiteralDone == pc = "done" /\ doc_type \in {"technical", "rfp"}

\* The expected list of the file's archetype, and the words of its entries.
ExpectedList == IF doc_type = "technical" THEN technical_expected ELSE rfp_expected

ExpectedWords == IF doc_type = "technical" THEN technical_words ELSE rfp_words

\* The words of every candidate of the file.
CandidateWords ==
    WordSets(AsSeq([i \in 1..Len(potential_headings) |-> potential_headings[i].text]))

\* The expected entries (from 1) a candidate of the file matched.
MatchedEntries ==
    LET words_cand       == CandidateWords
        min_section_page == MinSectionPage(potential_headings)
    IN  {e \in 1..Len(ExpectedList) :
            Best(potential_headings, words_cand, ExpectedWords[e], e - 1, min_section_page) # 0}

\* The page of outline entry e.
PageOf(e) == out.outline[e].page

\* The text ends with one blank, and one only.
EndsWithOneSpace(s) ==
    /\ Len(s) >= 1
    /\ s[Len(s)] = " "
    /\ Len(s) >= 2 => s[Len(s) - 1] # " "

\* C1: the outline of a technical or RFP file has the entries of the
\* archetype's expected list, one for one: as many, each with the text and
\* with the level of the expected entry.
C1_OutlineIsExpectedList ==
    LiteralDone =>
        /\ Len(out.outline) = Len(ExpectedList)
        /\ \A e \in 1..Len(ExpectedList) :
              /\ out.outline[e].text = ExpectedList[e][1]
              /\ out.outline[e].level = ExpectedList[e][2]

\* C2 (as stated): the pages of the outline of a technical or RFP file never
\* decrease in list order, and so the pages of the entries without a match.
C2_PagesNeverDecrease ==
    LiteralDone =>
        /\ \A e \in 1..(Len(out.outline) - 1) : PageOf(e) <= PageOf(e + 1)
        /\ LET unmatched == (1..Len(out.outline)) \ MatchedEntries
           IN  \A e \in unmatched : \A f \in unmatched : e < f => PageOf(e) <= PageOf(f)

\* C2 (amended): the page of an entry without a match is never below the page
\* of the entry just before it in the list.
C2_UnmatchedNotBelowPrevious ==
    LiteralDone =>
        LET matched == MatchedEntries
        IN  \A e \in 2..Len(out.outline) : e \notin matched => PageOf(e) >= PageOf(e - 1)

\* A matched entry lies on a lower page than an entry before it, and the
\* entry after it has no match.
C2_Witness ==
    /\ LiteralDone
    /\ LET matched == MatchedEntries
       IN  \E e \in matched :
              /\ e + 1 \in DOMAIN out.outline
              /\ e + 1 \notin matched
              /\ \E d \in 1..(e - 1) : PageOf(d) > PageOf(e)

\* C3 (as stated): an entry without a match lies on the page after the page
\* of the last entry before it that has a match, and on page 0 when no entry
\* before it has one.
C3_PageAfterLastMatched ==
    LiteralDone =>
        LET matched == MatchedEntries
        IN  \A e \in (1..Len(out.outline)) \ matched :
               LET earlier == {d \in matched : d < e}
               IN  PageOf(e) = IF earlier = {} THEN 0 ELSE PageOf(SetMax(earlier)) + 1

\* C3 (amended): an entry without a match lies on the page after the page of
\* the entry just before it in the list, matched or not, and on page 0 only
\* when it is the first entry of the list.
C3_PageAfterPrevious ==
    LiteralDone =>
        LET matched == MatchedEntries
        IN  \A e \in (1..Len(out.outline)) \ matched :
               PageOf(e) = IF e = 1 THEN 0 ELSE PageOf(e - 1) + 1

\* An entry with a match is followed by two without.
C3_Witness ==
    /\ LiteralDone
    /\ LET matched == MatchedEntries
       IN  \E e \in matched :
              /\ e + 2 \in DOMAIN out.outline
              /\ e + 1 \notin matched
              /\ e + 2 \notin matched

\* The file is filtered by the generic filter.
GenericFiltered == pc \in {"filtered", "done"} /\ doc_type = "other"

\* The candidate is the first of its key in potential_headings.
FirstOfKey(i) ==
    \A j \in 1..(i - 1) : DedupKey(potential_headings[j]) # DedupKey(potential_headings[i])

\* C4 (as stated): the candidates being in descending order of score, every
\* group of candidates of one key leaves one entry in the filtered list, the
\* first of the group.
C4_EveryKeyKeepsItsFirst ==
    GenericFiltered =>
        /\ \A i \in 1..(Len(potential_headings) - 1) :
              FracGE(potential_headings[i].score, potential_headings[i + 1].score)
        /\ \A i \in 1..Len(potential_headings) :
              FirstOfKey(i) =>
                  LET same == {j \in 1..Len(filtered_headings) :
                                  DedupKey(filtered_headings[j]) = DedupKey(potential_headings[i])}
                  IN  /\ Cardinality(same) = 1
                      /\ \A j \in same : filtered_headings[j] = potential_headings[i]

\* C4 (amended): the candidates being in descending order of score, the
\* filtered list is made of the first candidate of every key that scores above
\* 1.5 or has more than five words, in the candidates' order: a key leaves one
\* entry at most, and none when its first candidate is below the threshold.
C4_KeyKeepsFirstAboveThreshold ==
    GenericFiltered =>
        LET kept == SortedSeq({i \in 1..Len(potential_headings) :
                                  FirstOfKey(i) /\ PassesThreshold(potential_headings[i])})
        IN  /\ \A i \in 1..(Len(potential_headings) - 1) :
                  FracGE(potential_headings[i].score, potential_headings[i + 1].score)
            /\ filtered_headings = AsSeq([j \in 1..Len(kept) |-> potential_headings[kept[j]]])

\* Two candidates of one key of which the first is kept, and a key whose
\* first candidate is below the threshold.
C4_Witness ==
    /\ GenericFiltered
    /\ pc = "done"
    /\ \E i \in 1..Len(potential_headings) :
          /\ FirstOfKey(i)
          /\ PassesThreshold(potential_headings[i])
          /\ \E j \in (i + 1)..Len(potential_headings) :
                DedupKey(potential_headings[j]) = DedupKey(potential_headings[i])
    /\ \E i \in 1..Len(potential_headings) :
          FirstOfKey(i) /\ ~PassesThreshold(potential_headings[i])

\* C5: an English file whose lines of the first two pages, joined, hold
\* "application", "form" and "grant" gets the form title, is classified form
\* and has an empty outline, in however many lines the keywords stand.
C5_FormKeywordsMakeForm ==
    LET joined == lower(join(<<" ">>, TitleLines(spans)))
    IN  (/\ pc = "done"
         /\ lang = "en"
         /\ \A k \in 1..3 : Contains(joined, form_keywords[k]))
        => /\ out.title = <<"A","p","p","l","i","c","a","t","i","o","n"," ","f","o","r","m"," ","f","o","r"," ","g","r","a","n","t"," ","o","f"," ","L","T","C"," ","a","d","v","a","n","c","e"," "," ">>
           /\ doc_type = "form"
           /\ out.outline = <<>>

\* C6: a file classified event is written with the title "" and the one
\* entry H1 "HOPE To SEE You THERE! " on page 0, and none of the statistics,
\* the detector, the scorer, the filter and the level classifier is called
\* for it.
C6_EventOutput ==
    doc_type = "event" =>
        /\ called = {}
        /\ doc_stats = NoStats
        /\ potential_headings = <<>>
        /\ filtered_headings = <<>>
        /\ pc = "done" =>
              out = [title   |-> <<>>,
                     outline |-> <<[level |-> "H1",
                                    text  |-> <<"H","O","P","E"," ","T","o"," ","S","E","E"," ","Y","o","u"," ","T","H","E","R","E","!"," ">>,
                                    page  |-> 0]>>]

\* An event file of several lines is written.
C6_Witness == pc = "done" /\ doc_type = "event" /\ Len(spans) > 1

\* C7: the text of every entry of a written outline ends with one blank and
\* one only, and so does a title the largest-font fallback made, unless it
\* is empty.
C7_OneTrailingSpace ==
    pc = "done" =>
        /\ \A e \in 1..Len(out.outline) : EndsWithOneSpace(out.outline[e].text)
        /\ (TitleStrategy(spans) = "largest_font" /\ out.title # <<>>)
           => EndsWithOneSpace(out.title)

\* A file with blanks around a line gets its title from the largest-font
\* fallback and an outline that is not empty.
C7_Witness ==
    /\ pc = "done"
    /\ TitleStrategy(spans) = "largest_font"
    /\ out.title # <<>>
    /\ out.outline # <<>>
    /\ \E b \in 1..Len(blocks) : blocks[b].text # strip(blocks[b].text)

\* C8: a file whose language is not "en" has the document type other whatever
\* its title and its spans, so it goes through the generic filter and is
\* written with its title and the outline of what the filter leaves; and a
\* file whose language detection fails is processed as "en".
C8_OtherUnlessEnglish ==
    /\ (pc \in {"typed", "detected", "filtered", "done"} /\ lang # "en") => doc_type = "other"
    /\ (pc \in {"filtered", "done"} /\ lang # "en")
       => filtered_headings = GenericFilter(potential_headings, 1, {})
    /\ (pc = "done" /\ lang # "en")
       => /\ out.title = title
          /\ Len(out.outline) = Len(filtered_headings)
    /\ (pc \notin {"start", "extracted", "titled"} /\ detected = "FAIL") => lang = "en"

\* A Spanish file with the form title is written with an outline.
C8_Witness ==
    /\ pc = "done"
    /\ lang = "es"
    /\ title = <<"A","p","p","l","i","c","a","t","i","o","n"," ","f","o","r","m"," ","f","o","r"," ","g","r","a","n","t"," ","o","f"," ","L","T","C"," ","a","d","v","a","n","c","e"," "," ">>
    /\ doc_type = "other"
    /\ out.outline # <<>>

\* The pages of the candidates whose normalized text starts as "Table of
\* Contents" does.
TocPages ==
    {potential_headings[i].span.page :
        i \in {j \in 1..Len(potential_headings) :
                  startswith(norm(potential_headings[j].text), <<"t","a","b","l","e"," ","o","f"," ","c","o","n","t","e","n","t","s">>)}}

StatsMade == "analyze_document_structure" \in called

\* C10: a file whose spans have one size maps it to the percentile 1.0, and
\* the level of every span of it whose text matches no level pattern is H1;
\* the percentile of the size of rank r among the n > 1 distinct sizes in
\* ascending order is r / (n - 1): 0 for the smallest, 1 for the largest.
C10_Percentiles ==
    StatsMade =>
        LET sizes  == doc_stats.unique_sizes
            n      == Len(sizes)
            pct(r) == doc_stats.size_percentile[sizes[r + 1]]
        IN  /\ sizes = SortedSeq({spans[i].size : i \in 1..Len(spans)})
            /\ n = 1 =>
                  /\ pct(0).num = pct(0).den
                  /\ \A i \in 1..Len(spans) :
                        MatchLevel(strip(spans[i].text)) = ""
                        => classify_heading_level(strip(spans[i].text), spans[i], doc_stats) = "H1"
                  /\ pc = "done" =>
                        \A e \in 1..Len(out.outline) :
                           MatchLevel(filtered_headings[e].text) = ""
                           => out.outline[e].level = "H1"
            /\ n > 1 =>
                  /\ \A r \in 0..(n - 1) : pct(r).num * (n - 1) = r * pct(r).den
                  /\ pct(0).num = 0
                  /\ pct(n - 1).num = pct(n - 1).den

\* A file of one size is written with an entry H1 whose text matches no
\* level pattern.
C10_Witness ==
    /\ pc = "done"
    /\ StatsMade
    /\ Len(doc_stats.unique_sizes) = 1
    /\ \E e \in 1..Len(out.outline) :
          /\ MatchLevel(filtered_headings[e].text) = ""
          /\ out.outline[e].level = "H1"


\* The outline is made of the filtered headings, entry by entry.
LevelsWritten ==
    /\ pc = "done"
    /\ "classify_heading_level" \in called
    /\ Len(out.outline) = Len(filtered_headings)

\* The percentile the statistics hold for the size of the span of filtered
\* heading e: 0 for a span without a size or with a size they do not hold.
EntryPercentile(e) ==
    LET span == filtered_headings[e].span
    IN  IF "size" \in DOMAIN span /\ span.size \in DOMAIN doc_stats.size_percentile
        THEN doc_stats.size_percentile[span.size]
        ELSE Frac(0, 1)

\* The size of the span of filtered heading e is none the statistics hold.
SizeAbsent(e) ==
    LET span == filtered_headings[e].span
    IN  ~("size" \in DOMAIN span) \/ span.size \notin DOMAIN doc_stats.size_percentile

\* The tiers of which some pattern matches the text.
MatchingTiers(text) ==
    {t \in {"H1", "H2", "H3", "H4"} :
        MatchAny(CASE t = "H1" -> h1_patterns [] t = "H2" -> h2_patterns
                   [] t = "H3" -> h3_patterns [] t = "H4" -> h4_patterns, text)}

\* C11: the level of an outline entry is the first of H4, H3, H2, H1 of which
\* a pattern matches its text, whatever the percentile of its size; when no
\* tier matches, the level is H1 for a percentile of at least 0.9, H2 for one
\* of at least 0.75 and H3 below, never H4, and H3 for a size the statistics
\* do not hold.
C11_TierOrderThenPercentile ==
    LevelsWritten =>
        \A e \in 1..Len(out.outline) :
            LET tiers == MatchingTiers(filtered_headings[e].text)
                pct   == EntryPercentile(e)
                level == out.outline[e].level
            IN  /\ "H4" \in tiers => level = "H4"
                /\ ("H3" \in tiers /\ "H4" \notin tiers) => level = "H3"
                /\ ("H2" \in tiers /\ tiers \cap {"H3", "H4"} = {}) => level = "H2"
                /\ tiers = {"H1"} => level = "H1"
                /\ tiers = {} =>
                      /\ level = (IF 10 * pct.num >= 9 * pct.den THEN "H1"
                                  ELSE IF 4 * pct.num >= 3 * pct.den THEN "H2"
                                  ELSE "H3")
                      /\ level # "H4"
                      /\ SizeAbsent(e) => level = "H3"

\* An outline holds an entry H4 whose text matches a pattern of H4 and one of
\* H3 and whose size is in the lower half, and an entry H2 whose text matches
\* no pattern and whose size has a percentile of at least 0.75 and below 0.9.
C11_Witness ==
    /\ LevelsWritten
    /\ \E e \in 1..Len(out.outline) :
          /\ {"H3", "H4"} \subseteq MatchingTiers(filtered_headings[e].text)
          /\ 2 * EntryPercentile(e).num < EntryPercentile(e).den
          /\ out.outline[e].level = "H4"
    /\ \E e \in 1..Len(out.outline) :
          /\ MatchingTiers(filtered_headings[e].text) = {}
          /\ 4 * EntryPercentile(e).num >= 3 * EntryPercentile(e).den
          /\ 10 * EntryPercentile(e).num < 9 * EntryPercentile(e).den
          /\ out.outline[e].level = "H2"

\* The text has the shape of a top-level numbered section, <digits>. <Capitalised
\* text>, and does not end with a colon.
TopLevelNumbered(text) ==
    /\ Match(Cat(<<Bol, Rep(Dig, 1), Lit(<<".">>), Rep(Ws, 1), Set(AsciiUpper)>>), text)
    /\ ~endswith(text, <<":">>)

\* C12: an outline entry whose text is a top-level numbered section and
\* matches no pattern of H4 has the level H1.
C12_NumberedSectionIsH1 ==
    LevelsWritten =>
        \A e \in 1..Len(out.outline) :
            (/\ TopLevelNumbered(filtered_headings[e].text)
             /\ ~MatchAny(h4_patterns, filtered_headings[e].text))
            => out.outline[e].level = "H1"
====
